---- MODULE Spec2Model ----
(***************************************************************************)
(* Model of src/src/board.rs: the 8x8 chess board, the square-label parser *)
(* convert_square_number, the legality check is_legal_move and the mutator *)
(* move_piece.                                                             *)
(*                                                                         *)
(* A &str is a sequence of byte codes (ASCII only).  A Result is a record  *)
(* with a tag; Option<Piece> is a piece name or "None".                    *)
(***************************************************************************)
EXTENDS Integers, Sequences, FiniteSets

(* ---------------------------- bounds ----------------------------------- *)
\* calls of move_piece made on one board
MaxCalls == 2
\* squares a caller names: the first NumSquares squares in the order
\* 1a, 2a, ..., 8a, 1b, 2b, ...
NumSquares == 10
\* longest string handed to convert_square_number in SpecParse
MaxLen == 3

(* ---------------------------- values ----------------------------------- *)
Rows == 0..7
Cols == 0..7
Teams == {"White", "Black"}
Pieces == {"Pawn", "Rook", "Knight", "Bishop", "Queen", "King"}

Empty == [side |-> "Empty", piece |-> "None"]
White(p) == [side |-> "White", piece |-> p]
Black(p) == [side |-> "Black", piece |-> p]

Ok(v) == [tag |-> "Ok", val |-> v]
Err(e) == [tag |-> "Err", val |-> e]
\* a debug build aborts the call on `attempt to subtract with overflow`
Panic == [tag |-> "Panic", val |-> "overflow"]
NotCalled == [tag |-> "NotCalled", val |-> "None"]

ParseOk(r, c) == [tag |-> "Ok", row |-> r, col |-> c]
ParseErr == [tag |-> "Err", row |-> 0, col |-> 0]
NotParsed == [tag |-> "NotCalled", row |-> 0, col |-> 0]

(* ---------------------------- Board::new ------------------------------- *)
fst_row == <<"Rook", "Knight", "Bishop", "King", "Queen", "Bishop", "Knight", "Rook">>

NewBoard ==
    [r \in Rows |-> [c \in Cols |->
        CASE r = 0 -> White(fst_row[c + 1])
          [] r = 7 -> Black(fst_row[c + 1])
          [] r = 1 -> White("Pawn")
          [] r = 6 -> Black("Pawn")
          [] OTHER -> Empty]]

(* ---------------------- convert_square_number -------------------------- *)
\* str::trim removes leading and trailing White_Space; the ASCII ones are
\* tab, line feed, vertical tab, form feed, carriage return and space
IsWhitespace(b) == b \in {9, 10, 11, 12, 13, 32}

RECURSIVE TrimStart(_)
TrimStart(s) ==
    IF s # <<>> /\ IsWhitespace(Head(s)) THEN TrimStart(Tail(s)) ELSE s

RECURSIVE TrimEnd(_)
TrimEnd(s) ==
    IF s # <<>> /\ IsWhitespace(s[Len(s)])
    THEN TrimEnd(SubSeq(s, 1, Len(s) - 1))
    ELSE s

Trim(s) == TrimEnd(TrimStart(s))

\* variant: the label is not trimmed
convert_square_number_untrimmed(number) ==
    LET n == number IN
    IF Len(n) = 2
    THEN LET row == n[1]
             col == n[2]
         IN  CASE row \in 49..56 /\ col \in 97..104 -> ParseOk(row - 49, col - 97)
               [] row \in 49..56 /\ col \in 65..72  -> ParseOk(row - 49, col - 65)
               [] OTHER -> ParseErr
    ELSE ParseErr

convert_square_number(number) ==
    LET n == Trim(number) IN
    IF Len(n) = 2
    THEN LET row == n[1]
             col == n[2]
         IN  CASE row \in 49..56 /\ col \in 97..104 -> ParseOk(row - 49, col - 97)
               [] row \in 49..56 /\ col \in 65..72  -> ParseOk(row - 49, col - 65)
               [] OTHER -> ParseErr
    ELSE ParseErr

(* --------------------------- legality ---------------------------------- *)
Max(a, b) == IF a >= b THEN a ELSE b
Min(a, b) == IF a <= b THEN a ELSE b

\* variant: also rejects an empty square, as the doc comment of is_not_enemy says
is_not_enemy_or_empty(b, turn, row, col) ==
    IF b[row][col].side # turn THEN Err("MoveFromEnemyPiece") ELSE Ok("Unit")

is_not_enemy(b, turn, row, col) ==
    IF (turn = "White" /\ b[row][col].side = "Black")
       \/ (turn = "Black" /\ b[row][col].side = "White")
    THEN Err("MoveFromEnemyPiece")
    ELSE Ok("Unit")

\* variant: the arms of is_not_enemy pasted into is_not_team
is_not_team_pasted(b, turn, row, col) ==
    IF (turn = "White" /\ b[row][col].side = "Black")
       \/ (turn = "Black" /\ b[row][col].side = "White")
    THEN Err("MoveToTeamPiece")
    ELSE Ok("Unit")

is_not_team(b, turn, row, col) ==
    IF (turn = "White" /\ b[row][col].side = "White")
       \/ (turn = "Black" /\ b[row][col].side = "Black")
    THEN Err("MoveToTeamPiece")
    ELSE Ok("Unit")

is_a_move(dr, dc) ==
    IF dr = 0 /\ dc = 0 THEN Err("NotAMove") ELSE Ok("Unit")

\* the match of a pawn arm: (1, 0, Empty) | (1, 1, enemy(_)) => Ok
PawnMatch(d, dc, dst, enemy) ==
    IF (d = 1 /\ dc = 0 /\ dst = Empty) \/ (d = 1 /\ dc = 1 /\ dst.side = enemy)
    THEN Ok("Unit")
    ELSE Err("IllegalMove")

\* `a - b` on usize.  When a < b the subtraction overflows: a build with
\* overflow checks panics, a build without them wraps to 2^64 + a - b, which
\* the negative a - b stands for here (it is none of the matched values).
PawnArm(a, b, dc, dst, enemy) ==
    IF a >= b
    THEN {PawnMatch(a - b, dc, dst, enemy)}
    ELSE {Panic, PawnMatch(a - b, dc, dst, enemy)}

ShapeOk(cond) == IF cond THEN Ok("Unit") ELSE Err("IllegalMove")

\* the set of outcomes of is_legal_move(turn, r1, c1, r2, c2) on board b
is_legal_move(b, turn, r1, c1, r2, c2) ==
    LET src == b[r1][c1]
        dst == b[r2][c2]
        dr == Max(r1, r2) - Min(r1, r2)
        dc == Max(c1, c2) - Min(c1, c2)
    IN  IF is_not_enemy(b, turn, r1, c1).tag = "Err"
        THEN {is_not_enemy(b, turn, r1, c1)}
        ELSE IF is_not_team(b, turn, r2, c2).tag = "Err"
        THEN {is_not_team(b, turn, r2, c2)}
        ELSE IF is_a_move(dr, dc).tag = "Err"
        THEN {is_a_move(dr, dc)}
        ELSE CASE src = White("Pawn") -> PawnArm(r2, r1, dc, dst, "Black")
               [] src = Black("Pawn") -> PawnArm(r1, r2, dc, dst, "White")
               [] src.piece = "Rook" -> {ShapeOk(dr = 0 \/ dc = 0)}
               [] src.piece = "Knight" ->
                      {ShapeOk((dr = 1 /\ dc = 2) \/ (dr = 2 /\ dc = 1))}
               [] src.piece = "Bishop" -> {ShapeOk(dr = dc)}
               [] src.piece = "Queen" -> {ShapeOk(dr = 0 \/ dc = 0 \/ dr = dc)}
               [] src.piece = "King" -> {ShapeOk(dr <= 1 /\ dc <= 1)}
               [] OTHER -> {Err("MoveFromEmpty")}

(* --------------------------- move_piece -------------------------------- *)
\* variant: the two sides of the assignment exchanged
Overwritten_exchanged(b, r1, c1, r2, c2) == [b EXCEPT ![r1][c1] = b[r2][c2]]

\* self.0[r2][c2] = self.0[r1][c1]
Overwritten(b, r1, c1, r2, c2) == [b EXCEPT ![r2][c2] = b[r1][c1]]

\* let killed = if let White(p) | Black(p) = self.0[r1][c1] { Some(p) } else { None }
\* read after the destination has been overwritten
Killed(b, r1, c1) ==
    IF b[r1][c1].side \in Teams THEN b[r1][c1].piece ELSE "None"

\* variant: the source square is not cleared
Cleared_not(b, r1, c1) == b

\* self.0[r1][c1] = Empty
Cleared(b, r1, c1) == [b EXCEPT ![r1][c1] = Empty]

\* variant: the piece is relocated before the legality check is consulted
move_piece_unchecked(b, turn, from, to) ==
    LET p1 == convert_square_number(from)
        p2 == convert_square_number(to)
    IN  IF p1.tag = "Err" THEN {[res |-> Err("InvalidSquare"), board |-> b]}
        ELSE IF p2.tag = "Err" THEN {[res |-> Err("InvalidSquare"), board |-> b]}
        ELSE { LET b1 == Overwritten(b, p1.row, p1.col, p2.row, p2.col)
               IN  [res |-> IF l.tag = "Ok" THEN Ok(Killed(b1, p1.row, p1.col)) ELSE l,
                    board |-> Cleared(b1, p1.row, p1.col)]
               : l \in is_legal_move(b, turn, p1.row, p1.col, p2.row, p2.col) }

\* the set of outcomes [res, board] of move_piece(turn, from, to) on board b
move_piece(b, turn, from, to) ==
    LET p1 == convert_square_number(from)
        p2 == convert_square_number(to)
    IN  IF p1.tag = "Err" THEN {[res |-> Err("InvalidSquare"), board |-> b]}
        ELSE IF p2.tag = "Err" THEN {[res |-> Err("InvalidSquare"), board |-> b]}
        ELSE { IF l.tag = "Ok"
               THEN LET b1 == Overwritten(b, p1.row, p1.col, p2.row, p2.col)
                    IN  [res |-> Ok(Killed(b1, p1.row, p1.col)),
                         board |-> Cleared(b1, p1.row, p1.col)]
               ELSE [res |-> l, board |-> b]
               : l \in is_legal_move(b, turn, p1.row, p1.col, p2.row, p2.col) }

(* ----------------------------- state ----------------------------------- *)
VARIABLES
    board,      \* Board.0
    before,     \* Board.0 as it was when the latest call was made
    turn,       \* arguments of the latest call of move_piece
    from,
    to,
    result,     \* what the latest call of move_piece returned
    ncalls,     \* calls of move_piece made so far
    number,     \* argument of the latest call of convert_square_number
    parsed      \* what that call returned

vars == <<board, before, turn, from, to, result, ncalls, number, parsed>>

\* the label of square (r, c): rank digit, then file letter
Label(r, c) == <<49 + r, 97 + c>>
SquareLabels == {Label(k % 8, k \div 8) : k \in 0..(NumSquares - 1)}
\* " 2B " (padded, upper case), "a1" (file before rank)
OtherLabels == {<<32, 50, 66, 32>>, <<97, 49>>}
Labels == SquareLabels \cup OtherLabels

Init ==
    /\ board = NewBoard
    /\ before = NewBoard
    /\ turn = "White"
    /\ from = <<>>
    /\ to = <<>>
    /\ result = NotCalled
    /\ ncalls = 0
    /\ number = <<>>
    /\ parsed = NotParsed

\* one call board.move_piece(t, f, d); a panic ends the program
MovePiece(t, f, d) ==
    /\ result # Panic
    /\ \E o \in move_piece(board, t, f, d) :
         /\ board' = o.board
         /\ result' = o.res
    /\ before' = board
    /\ turn' = t
    /\ from' = f
    /\ to' = d
    /\ ncalls' = ncalls + 1
    /\ UNCHANGED <<number, parsed>>

Next ==
    \E t \in Teams, f \in Labels, d \in Labels :
        ncalls < MaxCalls /\ MovePiece(t, f, d)

Spec == Init /\ [][Next]_vars

(* ------------------- convert_square_number on its own ------------------ *)
\* bytes the strings are drawn from: tab, space, 0 1 8 9, @ A H I, ` a h i
Alphabet == {9, 32, 48, 49, 56, 57, 64, 65, 72, 73, 96, 97, 104, 105}

RECURSIVE StringsOfLen(_)
StringsOfLen(n) ==
    IF n = 0 THEN {<<>>}
    ELSE {Append(s, b) : s \in StringsOfLen(n - 1), b \in Alphabet}

Strings == UNION {StringsOfLen(n) : n \in 0..MaxLen}

\* "2a" and "a1"
PartnerLabels == {<<50, 97>>, <<97, 49>>}

InitParse ==
    /\ board = NewBoard
    /\ before = NewBoard
    /\ turn = "White"
    /\ from = <<>>
    /\ to = <<>>
    /\ result = NotCalled
    /\ ncalls = 0
    /\ number \in Strings
    /\ parsed = NotParsed

\* Board::convert_square_number(number), as the unit tests call it
Convert ==
    /\ parsed = NotParsed
    /\ parsed' = convert_square_number(number)
    /\ UNCHANGED <<board, before, turn, from, to, result, ncalls, number>>

\* move_piece on the new board with the string as one of the two labels
MoveLabelled ==
    /\ parsed # NotParsed
    /\ ncalls = 0
    /\ \E t \in Teams, l \in PartnerLabels :
          MovePiece(t, number, l) \/ MovePiece(t, l, number)

NextParse == Convert \/ MoveLabelled

SpecParse == InitParse /\ [][NextParse]_vars

(* ------------------------ the latest call ------------------------------ *)
Called == result.tag # "NotCalled"
P1 == convert_square_number(from)
P2 == convert_square_number(to)
\* the latest call got two valid labels
Parsed == Called /\ P1.tag = "Ok" /\ P2.tag = "Ok"
SameSquare == P1.row = P2.row /\ P1.col = P2.col
\* what the two squares held when the call was made
Src == before[P1.row][P1.col]
Dst == before[P2.row][P2.col]
Enemy(t) == IF t = "White" THEN "Black" ELSE "White"

Occupied(b) == {rc \in Rows \X Cols : b[rc[1]][rc[2]] # Empty}
Holding(b, sq) == {rc \in Rows \X Cols : b[rc[1]][rc[2]] = sq}

(* ------------------------------ C1 ------------------------------------- *)
\* C1: a call that returns Ok(k) returns the kind of the opposing piece that
\* stood on the destination, and None when the destination was empty.
C1_CapturedKind ==
    (Parsed /\ result.tag = "Ok") =>
        /\ Dst.side = Enemy(turn) => result.val = Dst.piece
        /\ Dst = Empty => result.val = "None"

(* ------------------------------ C2 ------------------------------------- *)
\* C2: a call that returns Err leaves all 64 squares as they were.
C2_ErrLeavesBoard ==
    (Called /\ result.tag = "Err") => board = before

\* a move rejected as illegal on a board an earlier move has changed
C2_Witness ==
    /\ result = Err("IllegalMove")
    /\ before # NewBoard
    /\ board = before

(* ------------------------------ C3 ------------------------------------- *)
\* C3: a call that returns Ok puts the source square's former content on the
\* destination, empties the source and leaves the other 62 squares alone.
C3_OneRelocation ==
    (Parsed /\ result.tag = "Ok") =>
        /\ board[P2.row][P2.col] = Src
        /\ board[P1.row][P1.col] = Empty
        /\ \A r \in Rows, c \in Cols :
              (<<r, c>> # <<P1.row, P1.col>> /\ <<r, c>> # <<P2.row, P2.col>>)
                 => board[r][c] = before[r][c]

\* a successful move onto an occupied square
C3_Witness ==
    /\ Parsed
    /\ result.tag = "Ok"
    /\ Dst # Empty
    /\ board[P2.row][P2.col] = Src
    /\ board[P1.row][P1.col] = Empty

(* ------------------------------ C4 ------------------------------------- *)
\* C4: at most 32 squares are occupied; a call never raises the number of
\* occupied squares and lowers it by at most one; for every (side, kind) the
\* board holds no more such pieces than before the call.
C4_PieceCount ==
    /\ Cardinality(Occupied(board)) <= 32
    /\ Cardinality(Occupied(board)) <= Cardinality(Occupied(before))
    /\ Cardinality(Occupied(before)) - Cardinality(Occupied(board)) <= 1
    /\ \A s \in Teams, k \in Pieces :
          Cardinality(Holding(board, [side |-> s, piece |-> k]))
             <= Cardinality(Holding(before, [side |-> s, piece |-> k]))

\* a capture: one piece fewer than before the call
C4_Witness ==
    /\ result.tag = "Ok"
    /\ Cardinality(Occupied(board)) = 31
    /\ Cardinality(Occupied(before)) = 32

(* ------------------------------ C5 ------------------------------------- *)
\* C5: when both labels parse to the same square the call fails with
\* NotAMove.
C5_SameSquareNotAMove ==
    (Parsed /\ SameSquare) => result = Err("NotAMove")

(* ------------------------------ C6 ------------------------------------- *)
\* C6 as stated: when the destination holds a piece of the acting side the
\* call fails with MoveToTeamPiece, whatever the source holds.
C6_Original ==
    (Parsed /\ Dst.side = turn) => result = Err("MoveToTeamPiece")

\* C6 as amended: when the destination holds a piece of the acting side and
\* the source does not hold a piece of the opposing side, the call fails with
\* MoveToTeamPiece, whatever the shape of the move.
C6_TeamPiece ==
    (Parsed /\ Dst.side = turn /\ Src.side # Enemy(turn))
        => result = Err("MoveToTeamPiece")

\* an own rook, knight or pawn sent onto another own piece
C6_Witness ==
    /\ Parsed
    /\ ~SameSquare
    /\ Src.side = turn
    /\ Dst.side = turn
    /\ before # NewBoard
    /\ result = Err("MoveToTeamPiece")

StandardBackRank ==
    <<"Rook", "Knight", "Bishop", "Queen", "King", "Bishop", "Knight", "Rook">>

\* C8: the board before any call is the standard starting position, queen on
\* column 3 and king on column 4, pawns on rows 1 and 6, rows 2 to 5 empty.
C8_StandardPosition ==
    ncalls = 0 =>
        \A c \in Cols :
            /\ board[0][c] = White(StandardBackRank[c + 1])
            /\ board[7][c] = Black(StandardBackRank[c + 1])
            /\ board[1][c] = White("Pawn")
            /\ board[6][c] = Black("Pawn")
            /\ \A r \in 2..5 : board[r][c] = Empty

(* ------------------------------ C9 ------------------------------------- *)
\* s is a rank digit 1-8 followed by a file letter a-h or A-H, between lead
\* and trail bytes of white space
WellFormed(s, lead, trail) ==
    /\ lead + 2 + trail = Len(s)
    /\ \A i \in 1..lead : IsWhitespace(s[i])
    /\ \A i \in (lead + 3)..Len(s) : IsWhitespace(s[i])
    /\ s[lead + 1] \in 49..56
    /\ s[lead + 2] \in (97..104) \cup (65..72)

ValidLabel(s) == \E lead \in 0..Len(s), trail \in 0..Len(s) : WellFormed(s, lead, trail)

\* the pair a valid label stands for: digit - 1 and the letter's index
Expected(s) ==
    LET lead == CHOOSE l \in 0..Len(s) : \E t \in 0..Len(s) : WellFormed(s, l, t)
        d == s[lead + 1]
        f == s[lead + 2]
    IN  ParseOk(d - 49, IF f >= 97 THEN f - 97 ELSE f - 65)

\* C9: convert_square_number returns Ok((d-1, i)) exactly for the valid
\* labels and Err(InvalidSquare) for every other string; move_piece returns
\* InvalidSquare when either of its labels is invalid.
C9_Parse ==
    /\ parsed # NotParsed =>
          parsed = (IF ValidLabel(number) THEN Expected(number) ELSE ParseErr)
    /\ (Called /\ (~ValidLabel(from) \/ ~ValidLabel(to)))
          => result = Err("InvalidSquare")

\* " 8H" parses to (7, 7), and the move from it to "a1" is an invalid square
C9_Witness ==
    /\ number = <<32, 56, 72>>
    /\ parsed = ParseOk(7, 7)
    /\ from = number
    /\ to = <<97, 49>>
    /\ result = Err("InvalidSquare")

(* ------------------------------ C10 ------------------------------------ *)
\* the destination is one row forward, straight onto an empty square or one
\* column aside onto a piece of the other side
PawnStep ==
    /\ P2.row = (IF turn = "White" THEN P1.row + 1 ELSE P1.row - 1)
    /\ \/ P2.col = P1.col /\ Dst = Empty
       \/ (P2.col = P1.col + 1 \/ P2.col = P1.col - 1) /\ Dst.side = Enemy(turn)

\* C10: for a pawn of the acting side and a destination that is another
\* square and holds no own piece, the call succeeds exactly on a pawn step;
\* on every other target it returns Err(IllegalMove) and the board is
\* unchanged.
C10_PawnMoves ==
    (Parsed /\ Src = [side |-> turn, piece |-> "Pawn"] /\ ~SameSquare /\ Dst.side # turn)
        => IF PawnStep
           THEN result.tag = "Ok"
           ELSE result = Err("IllegalMove") /\ board = before

====
